---- MODULE Spec2Model ----
(***************************************************************************)
(* One call of ThredClient (src/client.ts): answer, answerStream (callback  *)
(* delivery) or answerStreamGenerator (lazy-sequence delivery), from the    *)
(* validation of the message and the request with its abort timer, through  *)
(* the classification of a non-success response (src/errors.ts), to the     *)
(* stream splitter that reads the body.                                     *)
(*                                                                         *)
(* A JavaScript string is a sequence of one-character strings.  The        *)
(* transport delivers the body in chunks; a chunk is taken as the text     *)
(* that decoder.decode(value, { stream: true }) returns for it.  Each      *)
(* chunk is appended to the pending buffer, which is scanned for the       *)
(* delimiter "\n\n{".                                                      *)
(*                                                                         *)
(* Control leaves the splitter at every await of reader.read() and at      *)
(* every delivery of a value to the consumer: the onChunk call of          *)
(* answerStream, the yield of answerStreamGenerator.  pc names these       *)
(* places.  The consumer of answerStream returns from onChunk or throws;   *)
(* the consumer of the generator resumes it with next() or closes it with  *)
(* return(), which is what for await...of does.                            *)
(***************************************************************************)
EXTENDS Integers, Sequences, FiniteSets, TLC

VARIABLES
    mode,             \* "answer", "callback" (answerStream) or "generator"
                      \* (answerStreamGenerator)
    message,          \* request.message
    targets,          \* targets were given to the call
    requests,         \* the number of fetch calls issued for the answer
    timer,            \* the abort timer of fetchWithTimeout
    response,         \* the response that fetch resolved with
    cause,            \* history: what made the call fail
    error,            \* the error the call failed with
    dispatches,       \* the number of setResponse calls started
    registration,     \* the registration request that setResponse sent
    ended,            \* history: reader.read() reported the end of the body
    pc,               \* the place where the call is suspended, or how it ended
    received,         \* history: the decoded stream content delivered so far
    empties,          \* history: the number of empty chunks delivered so far
    prevLen,          \* history: the length of the content before the last read
    delimSplit,       \* history: a read boundary fell inside the first delimiter
    buffer,           \* let buffer            (client.ts:520, 706)
    accumulatedText,  \* let accumulatedText   (client.ts:521, 707)
    result,           \* let result            (client.ts:522); the yielded metadata
    event,            \* history: what the last step delivered to the consumer
    lastText,         \* history: <<v>> for the last text value v delivered, else <<>>
    nMeta,            \* history: the number of metadata results produced
    metaText,         \* history: the candidate text that was parsed into the metadata
    locked,           \* the reader holds the lock of response.body
    releases,         \* the number of reader.releaseLock() calls
    pair,             \* an answerStream call and an answerStreamGenerator call
                      \* that get the same chunks (PairSpec)
    sr,               \* a call of setResponse (SetSpec)
    two,              \* two calls on one client whose steps interleave (TwoSpec)
    payload,          \* the construction of a client and of a request body
                      \* (PayloadSpec)
    decoder           \* the TextDecoder of a call and the bytes it is given
                      \* (DecodeSpec)

vars == <<mode, message, targets, requests, timer, response, cause, error,
          dispatches, registration, ended, pc, received, empties, prevLen, delimSplit, buffer,
          accumulatedText, result, event, lastText, nMeta, metaText, locked,
          releases, pair, sr, two, payload, decoder>>

\* The variables of the other specifications, which a call leaves alone
aside == <<pair, sr, two, payload, decoder>>

\* The variables of the request, which the stream splitter leaves alone
request == <<mode, message, targets, requests, timer, response>>

-----------------------------------------------------------------------------
(* Bounds *)

\* The longest stream content over Alphabet that the transport delivers.
MaxLen == 5

\* The longest text, in characters, whose bytes the decoder is given.
MaxChars == 3

\* The number of empty chunks the transport may deliver in one stream.
MaxEmpty == 1

-----------------------------------------------------------------------------
(* Characters and strings *)

NL == "\n"

\* The characters of the bounded streams: a letter, the newline, the braces.
Alphabet == {"a", NL, "{", "}"}

\* Streams longer than MaxLen that the transport also delivers, in every
\* segmentation: a JSON array that holds an object after a blank line.
LongStreams ==
    { <<NL, NL, "[", NL, NL, "{", "}", "]">>,
      <<"a", NL, NL, "[", NL, NL, "{", "}", "]">>,
      <<"a", NL, NL, "{", "response", "code", "}">>,
      <<NL, NL, "{", "code", "}">>,
      <<NL, NL, "{", NL, NL, "{", "}">> }

\* A member of a JSON object with its separator, taken as one character:
\* "response" is a non-empty response, "code" a metadata with a non-empty code
Members == {"response", "code"}

\* "\n\n{" (client.ts:535, 720)
Delimiter == <<NL, NL, "{">>

\* "\n\n" (client.ts:565, 568, 580)
BlankLine == <<NL, NL>>

\* null (client.ts:522)
null == <<>>

IsPrefix(p, s) == Len(p) <= Len(s) /\ SubSeq(s, 1, Len(p)) = p

\* pat occurs in s at the 0-based index i
OccursAt(s, pat, i) ==
    /\ i >= 0
    /\ i + Len(pat) <= Len(s)
    /\ SubSeq(s, i + 1, i + Len(pat)) = pat

\* String.prototype.indexOf: the 0-based index of the first occurrence, or -1
IndexOf(s, pat) ==
    IF \E i \in 0..Len(s) : OccursAt(s, pat, i)
    THEN CHOOSE i \in 0..Len(s) :
            /\ OccursAt(s, pat, i)
            /\ \A j \in 0..(i - 1) : ~OccursAt(s, pat, j)
    ELSE -1

\* String.prototype.substring(from, to) with 0 <= from <= to <= length
Substring(s, from, to) == SubSeq(s, from + 1, to)

\* String.prototype.substring(from)
SubstringFrom(s, from) == SubSeq(s, from + 1, Len(s))

\* String.prototype.split(sep) for a non-empty sep: cut at the occurrences of
\* sep found from left to right, without overlap
RECURSIVE Split(_, _)
Split(s, sep) ==
    LET i == IndexOf(s, sep)
    IN  IF i = -1
        THEN <<s>>
        ELSE <<Substring(s, 0, i)>> \o Split(SubstringFrom(s, i + Len(sep)), sep)

\* Array.prototype.join(sep)
RECURSIVE Join(_, _)
Join(parts, sep) ==
    IF Len(parts) = 0 THEN <<>>
    ELSE IF Len(parts) = 1 THEN parts[1]
    ELSE parts[1] \o sep \o Join(Tail(parts), sep)

-----------------------------------------------------------------------------
(* JSON.parse, over the characters of the streams *)

\* The first index at or after i that holds no JSON whitespace
RECURSIVE SkipWs(_, _)
SkipWs(s, i) == IF i <= Len(s) /\ s[i] = NL THEN SkipWs(s, i + 1) ELSE i

\* The first index at or after i that holds neither JSON whitespace nor a
\* member of an object
RECURSIVE SkipMembers(_, _)
SkipMembers(s, i) ==
    IF i <= Len(s) /\ s[i] \in Members \cup {NL} THEN SkipMembers(s, i + 1) ELSE i

\* The index after the JSON value that starts at i, or 0 if none starts there.
\* With no quote, digit or comma among the characters, the values are the
\* object of members, the empty array and the array of one value.
RECURSIVE ValueEnd(_, _)
ValueEnd(s, i) ==
    IF i > Len(s) THEN 0
    ELSE IF s[i] = "{"
    THEN LET j == SkipMembers(s, i + 1)
         IN  IF j <= Len(s) /\ s[j] = "}" THEN j + 1 ELSE 0
    ELSE IF s[i] = "["
    THEN LET j == SkipWs(s, i + 1)
         IN  IF j <= Len(s) /\ s[j] = "]" THEN j + 1
             ELSE LET k == ValueEnd(s, j)
                      m == SkipWs(s, k)
                  IN  IF k # 0 /\ m <= Len(s) /\ s[m] = "]" THEN m + 1 ELSE 0
    ELSE 0

\* JSON.parse(s) does not throw
JSONValid(s) ==
    LET k == ValueEnd(s, SkipWs(s, 1))
    IN  k # 0 /\ SkipWs(s, k) = Len(s) + 1

\* The value JSON.parse(s) returns: the text without its whitespace
JSONValue(s) == SelectSeq(s, LAMBDA c : c # NL)

-----------------------------------------------------------------------------
(* The transport *)

RECURSIVE Strings(_)
Strings(n) ==
    IF n = 0 THEN {<<>>}
    ELSE LET shorter == Strings(n - 1)
         IN  shorter \cup {Append(s, c) : s \in {t \in shorter : Len(t) = n - 1},
                                          c \in Alphabet}

\* The stream contents the transport delivers
Streams ==
    Strings(MaxLen)
    \cup UNION {{SubSeq(s, 1, n) : n \in 0..Len(s)} : s \in LongStreams}

\* The chunks the transport may deliver next, after the content r
Chunks(r) ==
    (IF Len(r) <= MaxLen /\ \A i \in 1..Len(r) : r[i] \in Alphabet
     THEN Strings(MaxLen - Len(r)) ELSE {})
    \cup UNION {{SubSeq(s, Len(r) + 1, n) : n \in Len(r)..Len(s)} :
                    s \in {t \in LongStreams : IsPrefix(r, t)}}

-----------------------------------------------------------------------------
(* The request *)

Space == " "

\* The messages a caller passes: the empty one, blank ones, one with text
Messages == {<<>>, <<Space>>, <<Space, NL>>, <<"a">>}

IsSpace(c) == c \in {Space, NL}

RECURSIVE TrimStart(_)
TrimStart(s) == IF s # <<>> /\ IsSpace(Head(s)) THEN TrimStart(Tail(s)) ELSE s

RECURSIVE TrimEnd(_)
TrimEnd(s) ==
    IF s # <<>> /\ IsSpace(s[Len(s)]) THEN TrimEnd(SubSeq(s, 1, Len(s) - 1)) ELSE s

\* String.prototype.trim
Trim(s) == TrimEnd(TrimStart(s))

\* !request.message: a message of blanks is let through
MessageMissing(m) == m = <<>>

\* !request.message || request.message.trim().length === 0
MessageRejected(m) == m = <<>> \/ Len(Trim(m)) = 0

\* The status codes the service answers with
Statuses == {200, 400, 401, 404, 500, 503}

\* The content-type header of a response; "none" when it has none
ContentTypes == {"application/json", "text/html", "none"}

\* The responses fetch resolves with.  The content type is read only for a
\* non-success status and the body's presence only for a success status: the
\* field that is not read is held fixed.
\* json is what response.json() has given: nothing yet when fetch resolves.
Responses ==
    {r \in [status : Statuses, contentType : ContentTypes, body : BOOLEAN,
            json : {"unread"}] :
        IF r.status = 200 THEN r.contentType = "application/json" ELSE r.body}

NoResponse ==
    [status |-> 0, contentType |-> "none", body |-> FALSE, json |-> "unread"]

\* Every status counts as a success
ResponseOkAlways(r) == TRUE

\* response.ok
ResponseOk(r) == 200 <= r.status /\ r.status <= 299

\* What response.json() gives for the body of an error response: an object
\* named by the fields among message and error that it holds
ErrorBodies == {"message", "error", "both", "neither"}

\* What response.json() gives for the body of the answer: the non-empty
\* fields among response and metadata.code
AnswerBodies == {<<>>, <<"response">>, <<"response", "code">>}

HasField(v, f) == \E i \in 1..Len(v) : v[i] = f

-----------------------------------------------------------------------------
(* The errors (src/errors.ts) *)

\* An absent statusCode is 0, an absent response is "undefined"
NoError ==
    [name |-> "none", message |-> "none", statusCode |-> 0,
     response |-> "undefined"]

\* new Error(message)
PlainError(msg) == [NoError EXCEPT !.name = "Error", !.message = msg]

\* What a rejected read of the body is rejected with
TransportError == [NoError EXCEPT !.name = "TypeError", !.message = "read"]

\* What onChunk throws
ConsumerError == [NoError EXCEPT !.name = "ConsumerError", !.message = "onChunk"]

ThredError(msg, statusCode, resp) ==
    [name |-> "ThredError", message |-> msg, statusCode |-> statusCode,
     response |-> resp]

AuthenticationError(msg, resp) ==
    [ThredError(msg, 401, resp) EXCEPT !.name = "AuthenticationError"]

ValidationError(msg, resp) ==
    [ThredError(msg, 400, resp) EXCEPT !.name = "ValidationError"]

ServerError(msg, resp) ==
    [ThredError(msg, 500, resp) EXCEPT !.name = "ServerError"]

NetworkError(msg) ==
    [ThredError(msg, 0, "undefined") EXCEPT !.name = "NetworkError"]

TimeoutError(msg) ==
    [ThredError(msg, 0, "undefined") EXCEPT !.name = "TimeoutError"]

\* error instanceof ThredError
InstanceOfThredError(e) ==
    e.name \in {"ThredError", "AuthenticationError", "ValidationError",
                "ServerError", "NetworkError", "TimeoutError"}

\* An exit of fetchWithTimeout that leaves the timer as it is
ClearTimeoutSkipped(t) == t

\* clearTimeout(timeoutId)
ClearTimeout(t) == "cleared"

\* Every failure of the wait is a network failure
FetchErrorAlwaysNetwork(name) == NetworkError("fetch")

\* The catch of fetchWithTimeout, for an error of the given name
FetchError(name) ==
    IF name = "AbortError" THEN TimeoutError("timed out") ELSE NetworkError("fetch")

\* The try block of handleApiError: parsed is what response.json() gave,
\* "unparsable" when it was rejected
ErrorData(r, parsed) ==
    IF r.contentType = "application/json" /\ parsed \in ErrorBodies
    THEN parsed ELSE "undefined"

\* errorData?.message || errorData?.error || response.statusText
ErrorMessage(errorData) ==
    IF errorData \in {"message", "both"} THEN "errorData.message"
    ELSE IF errorData = "error" THEN "errorData.error"
    ELSE "response.statusText"

\* A switch without the case 500
ErrorForStatusNoServer(status, msg, errorData) ==
    CASE status = 400 -> ValidationError(msg, errorData)
      [] status = 401 -> AuthenticationError(msg, errorData)
      [] OTHER        -> ThredError(msg, status, errorData)

\* switch (response.status)
ErrorForStatus(status, msg, errorData) ==
    CASE status = 400 -> ValidationError(msg, errorData)
      [] status = 401 -> AuthenticationError(msg, errorData)
      [] status = 500 -> ServerError(msg, errorData)
      [] OTHER        -> ThredError(msg, status, errorData)

\* A handleApiError whose rejected response.json() reaches the caller
HandleApiErrorParseThrows(r, parsed) ==
    IF r.contentType = "application/json" /\ parsed = "unparsable"
    THEN [NoError EXCEPT !.name = "SyntaxError", !.message = "JSON"]
    ELSE LET errorData == ErrorData(r, parsed)
         IN  ErrorForStatus(r.status, ErrorMessage(errorData), errorData)

\* The error handleApiError throws
HandleApiError(r, parsed) ==
    LET errorData == ErrorData(r, parsed)
    IN  ErrorForStatus(r.status, ErrorMessage(errorData), errorData)

\* The conditions under which setResponse is called
DispatchAnswer(tg, v) == tg /\ HasField(v, "response") /\ HasField(v, "code")

\* A dispatch that does not ask whether targets were given
DispatchStreamWithoutTargets(tg, v) == v # null /\ HasField(v, "code")

DispatchStream(tg, v) == tg /\ v # null /\ HasField(v, "code")

-----------------------------------------------------------------------------
(* The state of one call *)

NoEvent == [kind |-> "none", value |-> <<>>]

TextPlaces == {"text", "flush", "fb_text", "fb_rest", "fb_all"}
MetaPlaces == {"meta", "fb_meta"}
Settled == {"done", "read_failed", "threw", "closed"}

\* The ends of a call that never acquired a reader: it failed before, or it is
\* an answer call, which returned
Rejected == {"rejected"}
Returned == {"returned"}
Ended == Settled \cup Rejected \cup Returned

\* The variables a step of the splitter writes
Cur ==
    [mode |-> mode, targets |-> targets,
     pc |-> pc, buffer |-> buffer, accumulatedText |-> accumulatedText,
     result |-> result, event |-> NoEvent, lastText |-> lastText,
     nMeta |-> nMeta, metaText |-> metaText, locked |-> locked,
     releases |-> releases, dispatches |-> dispatches,
     registration |-> registration]

Apply(s) ==
    /\ pc' = s.pc
    /\ buffer' = s.buffer
    /\ accumulatedText' = s.accumulatedText
    /\ result' = s.result
    /\ event' = s.event
    /\ lastText' = s.lastText
    /\ nMeta' = s.nMeta
    /\ metaText' = s.metaText
    /\ locked' = s.locked
    /\ releases' = s.releases
    /\ dispatches' = s.dispatches
    /\ registration' = s.registration

\* setResponse is awaited: the call goes on when the registration settles
AwaitSetResponse(s) ==
    [s EXCEPT !.dispatches = @ + 1,
              !.registration = "pending",
              !.pc = "registering"]

\* this.setResponse(...) without await: it runs to its first await, which is
\* that of the registration request if the text and the code are non-empty,
\* and the call goes on
StartSetResponse(s) ==
    [s EXCEPT !.dispatches = @ + 1,
              !.registration =
                  IF HasField(s.result, "response") /\ HasField(s.result, "code")
                  THEN "pending" ELSE @]

\* After finally, answerStream calls setResponse if it has to and returns
ReturnResult(s) ==
    IF s.mode = "callback" /\ s.pc = "done" /\ DispatchStream(s.targets, s.result)
    THEN StartSetResponse(s)
    ELSE s

\* answer calls setResponse if it has to and returns responseJson
AnswerReturn(s) ==
    IF DispatchAnswer(s.targets, s.result)
    THEN StartSetResponse([s EXCEPT !.pc = "returned"])
    ELSE [s EXCEPT !.pc = "returned"]

\* An exit that releases the reader only when the call returns normally
FinallyOnReturnOnly(s, how) ==
    IF how = "done"
    THEN [s EXCEPT !.locked = FALSE, !.releases = @ + 1, !.pc = how]
    ELSE [s EXCEPT !.pc = how]

\* finally { reader.releaseLock(); } and the way the call ends
Finally(s, how) ==
    ReturnResult([s EXCEPT !.locked = FALSE, !.releases = @ + 1, !.pc = how])

\* A close that ends the generator without running its finally block
ReturnWithoutFinally(s) == [s EXCEPT !.pc = "closed"]

\* return() on the generator suspended at a yield inside try: the finally
\* block runs and the generator is done
Return(s) == Finally(s, "closed")

\* onChunk(accumulatedText) / yield accumulatedText: control is with the
\* consumer at place where
Deliver(s, where) ==
    [s EXCEPT !.event = [kind |-> "text", value |-> s.accumulatedText],
              !.lastText = <<s.accumulatedText>>,
              !.pc = where]

\* accumulatedText = textContent: the text is replaced, not appended to
AppendTextContentReset(acc, textContent) == textContent

\* accumulatedText += textContent
AppendTextContent(acc, textContent) == acc \o textContent

\* accumulatedText = buffer: only the last read is kept
FlushBufferReset(acc, buf) == buf

\* accumulatedText += buffer
FlushBuffer(acc, buf) == acc \o buf

\* The remainder that failed to parse is dropped
RestoreRemainderDropped(acc, metadataPart) == acc

\* accumulatedText += "\n\n" + metadataPart
RestoreRemainder(acc, metadataPart) == acc \o BlankLine \o metadataPart

\* The buffer is left as it is after a successful parse
ClearedBufferKept(buf) == buf

\* buffer = "" after a successful parse
ClearedBuffer(buf) == <<>>

\* The parsed value is delivered but not kept as the result
ProduceResultNotKept(s, candidate) ==
    [s EXCEPT !.event = [kind |-> "metadata", value |-> JSONValue(candidate)],
              !.nMeta = @ + 1,
              !.metaText = candidate]

\* result = JSON.parse(candidate) / yield { metadata }
Produce(s, candidate) ==
    [s EXCEPT !.result = JSONValue(candidate),
              !.event = [kind |-> "metadata", value |-> JSONValue(candidate)],
              !.nMeta = @ + 1,
              !.metaText = candidate]

\* A fallback that never parses the remainder and delivers it as text
FallbackParseTextOnly(s) ==
    LET lines == Split(s.buffer, BlankLine)
        metadataPart == Join(Tail(lines), BlankLine)
    IN  IF metadataPart # <<>>
        THEN Deliver([s EXCEPT !.accumulatedText =
                          RestoreRemainder(@, metadataPart)], "fb_rest")
        ELSE Finally(s, "done")

\* The fallback's parse of the remainder
FallbackParse(s) ==
    LET lines == Split(s.buffer, BlankLine)
        metadataPart == Join(Tail(lines), BlankLine)
    IN  IF metadataPart # <<>>
        THEN IF JSONValid(metadataPart)
             THEN IF s.mode = "callback"
                  THEN Finally(Produce(s, metadataPart), "done")
                  ELSE [Produce(s, metadataPart) EXCEPT !.pc = "fb_meta"]
             ELSE Deliver([s EXCEPT !.accumulatedText =
                                RestoreRemainder(@, metadataPart)], "fb_rest")
        ELSE Finally(s, "done")

\* After the read loop: the fallback on a non-empty buffer, then finally
AfterLoop(s) ==
    IF s.buffer # <<>>
    THEN LET lines == Split(s.buffer, BlankLine)
         IN  IF Len(lines) > 1
             THEN LET textPart == lines[1]
                  IN  IF textPart # <<>>
                      THEN Deliver([s EXCEPT !.accumulatedText = @ \o textPart],
                                   "fb_text")
                      ELSE FallbackParse(s)
             ELSE Deliver([s EXCEPT !.accumulatedText = @ \o s.buffer], "fb_all")
    ELSE Finally(s, "done")

\* A failed parse that gives the candidate up: the buffer is emptied
ContinueReadingCleared(s) == [s EXCEPT !.buffer = <<>>, !.pc = "read"]

\* catch (e) { continue; }: the buffer stays and the loop reads on
ContinueReading(s) == [s EXCEPT !.pc = "read"]

\* A parse that succeeds but does not leave the loop
ParseInLoopKeepsReading(s) ==
    LET metadataIndex == IndexOf(s.buffer, Delimiter)
        metadataStr == SubstringFrom(s.buffer, metadataIndex + 2)
    IN  IF JSONValid(metadataStr)
        THEN [Produce(s, metadataStr) EXCEPT !.pc = "read"]
        ELSE [s EXCEPT !.pc = "read"]

\* The loop's parse of the candidate after the delimiter
ParseInLoop(s) ==
    LET metadataIndex == IndexOf(s.buffer, Delimiter)
        metadataStr == SubstringFrom(s.buffer, metadataIndex + 2)
    IN  IF JSONValid(metadataStr)
        THEN IF s.mode = "callback"
             THEN AfterLoop([Produce(s, metadataStr) EXCEPT
                                !.buffer = ClearedBuffer(@)])
             ELSE [Produce(s, metadataStr) EXCEPT !.pc = "meta"]
        ELSE ContinueReading(s)

\* A pass without delimiter that delivers nothing when the buffer is empty
FlushNonEmptyOnly(s) ==
    IF s.buffer = <<>> THEN [s EXCEPT !.pc = "read"]
    ELSE Deliver([s EXCEPT !.accumulatedText = FlushBuffer(@, s.buffer)], "flush")

\* else { accumulatedText += buffer; onChunk(accumulatedText); ... }: the
\* buffer is emptied when the consumer hands control back
Flush(s) ==
    Deliver([s EXCEPT !.accumulatedText = FlushBuffer(@, s.buffer)], "flush")

\* A pass that delivers the text before the delimiter even when it is empty
ClassifyDeliversEmptyText(s) ==
    LET metadataIndex == IndexOf(s.buffer, Delimiter)
    IN  IF metadataIndex # -1
        THEN Deliver([s EXCEPT !.accumulatedText =
                          AppendTextContent(@, Substring(s.buffer, 0, metadataIndex))],
                     "text")
        ELSE Deliver([s EXCEPT !.accumulatedText = FlushBuffer(@, s.buffer)],
                     "flush")

\* One pass of the loop body on the buffer that holds the new chunk
Classify(s) ==
    LET metadataIndex == IndexOf(s.buffer, Delimiter)
    IN  IF metadataIndex # -1
        THEN LET textContent == Substring(s.buffer, 0, metadataIndex)
             IN  IF textContent # <<>>
                 THEN Deliver([s EXCEPT !.accumulatedText =
                                    AppendTextContent(@, textContent)], "text")
                 ELSE ParseInLoop(s)
        ELSE Flush(s)

\* A flush that leaves the buffer as it is
AfterFlushBufferKept(s) == [s EXCEPT !.pc = "read"]

\* buffer = "" after the delivery of a pass without delimiter; the loop reads on
AfterFlush(s) == [s EXCEPT !.buffer = <<>>, !.pc = "read"]

\* The consumer hands control back, and after a metadata value the
\* generator goes on reading
ContinueReadsAfterMetadata(s) ==
    CASE s.pc = "text"    -> ParseInLoop(s)
      [] s.pc = "flush"   -> AfterFlush(s)
      [] s.pc = "meta"    -> [s EXCEPT !.pc = "read"]
      [] s.pc = "fb_text" -> FallbackParse(s)
      [] OTHER            -> Finally(s, "done")

\* The consumer hands control back at place s.pc
Continue(s) ==
    CASE s.pc = "text"    -> ParseInLoop(s)
      [] s.pc = "flush"   -> AfterFlush(s)
      [] s.pc = "meta"    -> AfterLoop([s EXCEPT !.buffer = ClearedBuffer(@)])
      [] s.pc = "fb_text" -> FallbackParse(s)
      [] OTHER            -> Finally(s, "done")

-----------------------------------------------------------------------------
(* Two calls on the same chunks *)

NoPair == <<>>

NoSet == <<>>

NoTwo == <<>>

NoPayload == <<>>

NoDecoder == <<>>

\* A call runs until it awaits reader.read() or ends, its consumer handing
\* control back at once: the run it ends in and the values it has delivered
RECURSIVE Drain(_, _)
Drain(s, events) ==
    LET delivered == IF s.event.kind = "none" THEN events
                     ELSE Append(events, s.event)
    IN  IF s.pc \in TextPlaces \cup MetaPlaces
        THEN Drain(Continue([s EXCEPT !.event = NoEvent]), delivered)
        ELSE [s |-> [s EXCEPT !.event = NoEvent], events |-> delivered]

\* The strings among the delivered values
TextsOf(events) ==
    LET texts == SelectSeq(events, LAMBDA e : e.kind = "text")
    IN  [i \in 1..Len(texts) |-> texts[i].value]

\* The pair after its calls took a step that left them as cb and gen
Paired(cb, gen) ==
    [cb  |-> Drain(cb, pair.cb.events),
     gen |-> Drain(gen, pair.gen.events)]

PairInit ==
    /\ mode = "pair"
    /\ message = <<"a">>
    /\ targets = FALSE
    /\ requests = 1
    /\ timer = "cleared"
    /\ response \in {r \in Responses : ResponseOk(r) /\ r.body}
    /\ cause = "none"
    /\ error = NoError
    /\ dispatches = 0
    /\ registration = "none"
    /\ ended = FALSE
    /\ pc = "read"
    /\ received = <<>>
    /\ empties = 0
    /\ prevLen = 0
    /\ delimSplit = FALSE
    /\ buffer = <<>>
    /\ accumulatedText = <<>>
    /\ result = null
    /\ event = NoEvent
    /\ lastText = <<>>
    /\ nMeta = 0
    /\ metaText = <<>>
    /\ locked = TRUE
    /\ releases = 0
    /\ pair = [cb  |-> [s |-> [Cur EXCEPT !.mode = "callback"], events |-> <<>>],
               gen |-> [s |-> [Cur EXCEPT !.mode = "generator"], events |-> <<>>]]
    /\ sr = NoSet
    /\ two = NoTwo
    /\ payload = NoPayload
    /\ decoder = NoDecoder

\* reader.read() gives both calls the same chunk
PairReadChunk ==
    /\ pair.cb.s.pc = "read"
    /\ pair.gen.s.pc = "read"
    /\ \E chunk \in Chunks(received) :
          /\ chunk = <<>> => empties < MaxEmpty
          /\ received' = received \o chunk
          /\ empties' = IF chunk = <<>> THEN empties + 1 ELSE empties
          /\ prevLen' = Len(received)
          /\ pair' = Paired(Classify([pair.cb.s EXCEPT !.buffer = @ \o chunk]),
                            Classify([pair.gen.s EXCEPT !.buffer = @ \o chunk]))
    /\ UNCHANGED <<two, payload, decoder, sr, registration, request, cause, error, dispatches, ended, pc, delimSplit,
                   buffer, accumulatedText, result, event, lastText, nMeta,
                   metaText, locked, releases>>

\* reader.read() gives both calls done
PairReadDone ==
    /\ pair.cb.s.pc = "read"
    /\ pair.gen.s.pc = "read"
    /\ ended' = TRUE
    /\ pair' = Paired(AfterLoop(pair.cb.s), AfterLoop(pair.gen.s))
    /\ UNCHANGED <<two, payload, decoder, sr, registration, request, cause, error, dispatches, pc, received, empties,
                   prevLen, delimSplit, buffer, accumulatedText, result, event,
                   lastText, nMeta, metaText, locked, releases>>

PairNext ==
    \/ PairReadChunk
    \/ PairReadDone

PairSpec == PairInit /\ [][PairNext]_vars

-----------------------------------------------------------------------------
(* setResponse *)

\* What targets.text or targets.link is: absent, an HTMLElement, the id of an
\* element of the document, or an id that no element has
TargetKinds == {"none", "element", "id", "missing"}

\* The targets argument: not given, or given with its two fields
TargetsGiven ==
    {[given |-> FALSE, text |-> "none", link |-> "none"]}
    \cup [given : {TRUE}, text : TargetKinds, link : TargetKinds]

\* The arguments of setResponse; "" stands for every falsy value
SetArguments ==
    [text : {"", "t"}, code : {"", "c"}, link : {"", "l"}, targets : TargetsGiven]

\* The element that a field of targets resolves to is not null
Resolves(kind) == kind \in {"element", "id"}

\* innerHTML of the text element after the first block of setResponse
WrittenText(a) ==
    IF a.targets.given /\ a.targets.text # "none" /\ Resolves(a.targets.text)
    THEN a.text ELSE "unset"

\* innerHTML of the link element after the second block of setResponse
WrittenLink(a) ==
    IF a.targets.given /\ a.targets.link # "none" /\ Resolves(a.targets.link)
        /\ a.link # ""
    THEN a.link ELSE "unset"

\* The registration is sent only for a call with targets
RegistersWithTargets(a) == a.targets.given /\ a.text # "" /\ a.code # ""

\* if (text && code)
Registers(a) == a.text # "" /\ a.code # ""

\* All variables of a call, at rest
NoCall ==
    /\ mode = "none"
    /\ message = <<>>
    /\ targets = FALSE
    /\ requests = 0
    /\ timer = "unset"
    /\ response = NoResponse
    /\ cause = "none"
    /\ error = NoError
    /\ dispatches = 0
    /\ registration = "none"
    /\ ended = FALSE
    /\ pc = "none"
    /\ received = <<>>
    /\ empties = 0
    /\ prevLen = 0
    /\ delimSplit = FALSE
    /\ buffer = <<>>
    /\ accumulatedText = <<>>
    /\ result = null
    /\ event = NoEvent
    /\ lastText = <<>>
    /\ nMeta = 0
    /\ metaText = <<>>
    /\ locked = FALSE
    /\ releases = 0

call == <<mode, message, targets, requests, timer, response, cause, error,
          dispatches, registration, ended, pc, received, empties, prevLen, delimSplit, buffer,
          accumulatedText, result, event, lastText, nMeta, metaText, locked,
          releases>>

SetInit ==
    /\ NoCall
    /\ pair = NoPair
    /\ two = NoTwo
    /\ payload = NoPayload
    /\ decoder = NoDecoder
    /\ \E a \in SetArguments :
          sr = [args |-> a, pc |-> "called", textElement |-> "unset",
                linkElement |-> "unset", requests |-> 0, timer |-> "unset",
                response |-> NoResponse, error |-> NoError]

\* setResponse runs to its first await: the targets are written, and with a
\* text and a code fetchWithTimeout arms its timer and issues the request;
\* without, setResponse resolves
SetResponse ==
    /\ sr.pc = "called"
    /\ sr' = IF Registers(sr.args)
             THEN [sr EXCEPT !.textElement = WrittenText(sr.args),
                             !.linkElement = WrittenLink(sr.args),
                             !.requests = @ + 1,
                             !.timer = "armed",
                             !.pc = "fetching"]
             ELSE [sr EXCEPT !.textElement = WrittenText(sr.args),
                             !.linkElement = WrittenLink(sr.args),
                             !.pc = "resolved"]
    /\ UNCHANGED <<call, pair, two, payload, decoder>>

\* fetch resolves for the registration
RegisterResponds ==
    /\ sr.pc = "fetching"
    /\ \E r \in Responses :
          sr' = IF ~ResponseOk(r)
                THEN IF r.contentType = "application/json"
                     THEN [sr EXCEPT !.response = r, !.timer = "cleared",
                                     !.pc = "error_json"]
                     ELSE [sr EXCEPT !.response = r, !.timer = "cleared",
                                     !.pc = "rejected",
                                     !.error = HandleApiError(r, "unread")]
                ELSE [sr EXCEPT !.response = r, !.timer = "cleared",
                                !.pc = "json"]
    /\ UNCHANGED <<call, pair, two, payload, decoder>>

\* fetch rejects for the registration, by the abort of the timer or otherwise
RegisterFails ==
    /\ sr.pc = "fetching"
    /\ \E name \in {"AbortError", "TypeError"} :
          sr' = [sr EXCEPT !.timer = IF name = "AbortError" THEN "fired"
                                    ELSE "cleared",
                           !.pc = "rejected",
                           !.error = FetchError(name)]
    /\ UNCHANGED <<call, pair, two, payload, decoder>>

\* The body of the registration's response arrives: the error body in
\* handleApiError, or the body that return response.json() resolves with
RegisterBodyArrives ==
    /\ sr.pc \in {"error_json", "json"}
    /\ \E parsed \in ErrorBodies \cup {"unparsable"} :
          sr' = IF sr.pc = "error_json"
                THEN [sr EXCEPT !.response.json = parsed,
                                !.pc = "rejected",
                                !.error = HandleApiError(sr.response, parsed)]
                ELSE IF parsed = "unparsable"
                THEN [sr EXCEPT !.response.json = parsed,
                                !.pc = "rejected",
                                !.error = [NoError EXCEPT !.name = "SyntaxError",
                                                          !.message = "JSON"]]
                ELSE [sr EXCEPT !.response.json = parsed, !.pc = "resolved"]
    /\ UNCHANGED <<call, pair, two, payload, decoder>>

SetNext ==
    \/ SetResponse
    \/ RegisterResponds
    \/ RegisterFails
    \/ RegisterBodyArrives

SetSpec == SetInit /\ [][SetNext]_vars

-----------------------------------------------------------------------------
(* Two calls on one client *)

\* The contents of the two response bodies
TwoStreams == {<<"a", NL, NL, "{", "}">>, <<NL, NL, "{", "a", "}">>}

\* The chunks the transport may deliver next to a call that received r
TwoChunks(r) ==
    UNION {{SubSeq(s, Len(r) + 1, n) : n \in (Len(r) + 1)..Len(s)} :
               s \in {t \in TwoStreams : IsPrefix(r, t)}}

\* The locals of a call that has acquired its reader
TwoStart(m) == [Cur EXCEPT !.mode = m, !.pc = "read", !.locked = TRUE]

\* onChunk is called synchronously: while a callback of t runs, no other code
\* of the thread does
CallbackRunning(t, i) ==
    t.calls[i].s.mode = "callback" /\ t.calls[i].s.pc \in TextPlaces

\* The values call c has delivered, the one it is suspended at not included
Delivered(c) ==
    IF c.s.event.kind = "none" THEN c.events ELSE Append(c.events, c.s.event)

\* buffer and accumulatedText kept in fields of the client: the step of one
\* call writes those of the other
StepOfSharedFields(t, i, s) ==
    [t EXCEPT !.calls[i].s = s,
              !.calls[3 - i].s.buffer = s.buffer,
              !.calls[3 - i].s.accumulatedText = s.accumulatedText]

\* buffer, accumulatedText and result are locals of the call: a step of call
\* i leaves it as s and the other call as it was
StepOf(t, i, s) == [t EXCEPT !.calls[i].s = s]

TwoInit ==
    /\ NoCall
    /\ pair = NoPair
    /\ sr = NoSet
    /\ payload = NoPayload
    /\ decoder = NoDecoder
    /\ \E m1, m2 \in {"callback", "generator"} :
          two = [calls |-> <<[s |-> TwoStart(m1), chunks |-> <<>>, received |-> <<>>,
                              ended |-> FALSE, events |-> <<>>],
                             [s |-> TwoStart(m2), chunks |-> <<>>, received |-> <<>>,
                              ended |-> FALSE, events |-> <<>>]>>]

\* reader.read() of call i resolves with a chunk, and the call runs its pass
TwoReadChunk(i) ==
    /\ two.calls[i].s.pc = "read"
    /\ ~CallbackRunning(two, 3 - i)
    /\ \E chunk \in TwoChunks(two.calls[i].received) :
          two' = StepOf([two EXCEPT !.calls[i].chunks = Append(@, chunk),
                                    !.calls[i].received = @ \o chunk],
                        i, Classify([two.calls[i].s EXCEPT !.buffer = @ \o chunk]))
    /\ UNCHANGED <<call, pair, sr, payload, decoder>>

\* reader.read() of call i gives done
TwoReadDone(i) ==
    /\ two.calls[i].s.pc = "read"
    /\ ~CallbackRunning(two, 3 - i)
    /\ two' = StepOf([two EXCEPT !.calls[i].ended = TRUE], i,
                     AfterLoop(two.calls[i].s))
    /\ UNCHANGED <<call, pair, sr, payload, decoder>>

\* The callback of call i returns, or the consumer of generator i asks for the
\* next value
TwoResume(i) ==
    /\ two.calls[i].s.pc \in TextPlaces \cup MetaPlaces
    /\ ~CallbackRunning(two, 3 - i)
    /\ two' = StepOf([two EXCEPT !.calls[i].events = Delivered(two.calls[i])],
                     i, Continue([two.calls[i].s EXCEPT !.event = NoEvent]))
    /\ UNCHANGED <<call, pair, sr, payload, decoder>>

TwoNext ==
    \E i \in 1..2 :
        \/ TwoReadChunk(i)
        \/ TwoReadDone(i)
        \/ TwoResume(i)

TwoSpec == TwoInit /\ [][TwoNext]_vars

\* A call that gets the chunks alone and runs to its next read or to its end
RECURSIVE RunAlone(_, _, _)
RunAlone(run, chunks, end) ==
    IF chunks # <<>>
    THEN RunAlone(Drain(Classify([run.s EXCEPT !.buffer = @ \o Head(chunks)]),
                        run.events),
                  Tail(chunks), end)
    ELSE IF end THEN Drain(AfterLoop(run.s), run.events)
         ELSE run

-----------------------------------------------------------------------------
(* The request payload *)

Models == {"gpt-4", "gpt-4-turbo", "gpt-3.5-turbo"}

\* The values of an optional field that holds a model: absent, the empty
\* string, or a model
OptionalModels == {"undefined", ""} \cup Models

\* The requests a caller passes; the message is one that passes the validation
Requests ==
    [message : {"a"}, model : OptionalModels, maxTokens : {"undefined", "0", "100"},
     temperature : {"undefined", "0"}, conversationId : {"undefined", "c1"}]

Methods == {"answer", "answerStream", "answerStreamGenerator"}

\* v is a truthy value of JavaScript
Truthy(v) == v \notin {"undefined", ""}

\* this.defaultModel = config.defaultModel || "gpt-4"
DefaultModel(config) ==
    IF Truthy(config.defaultModel) THEN config.defaultModel ELSE "gpt-4"

\* A payload whose model is the client's default whatever the request says
PayloadOfDefaultFirst(req, defaultModel) ==
    [req EXCEPT !.model = IF Truthy(defaultModel) THEN defaultModel ELSE req.model]

\* { ...request, model: request.model || this.defaultModel }
PayloadOf(req, defaultModel) ==
    [req EXCEPT !.model = IF Truthy(req.model) THEN req.model ELSE defaultModel]

\* JSON.stringify(payload): the members whose value is not undefined
Stringify(p) == [f \in {g \in DOMAIN p : p[g] # "undefined"} |-> p[f]]

PayloadInit ==
    /\ NoCall
    /\ pair = NoPair
    /\ sr = NoSet
    /\ two = NoTwo
    /\ decoder = NoDecoder
    /\ \E config \in [defaultModel : OptionalModels], req \in Requests :
          payload = [pc |-> "new", config |-> config, defaultModel |-> "unset",
                     request |-> req, method |-> "none", payload |-> <<>>,
                     body |-> <<>>]

\* new ThredClient(config)
Construct ==
    /\ payload.pc = "new"
    /\ payload' = [payload EXCEPT !.defaultModel = DefaultModel(payload.config),
                                  !.pc = "constructed"]
    /\ UNCHANGED <<call, pair, sr, two, decoder>>

\* A method is called and builds its payload
BuildPayload ==
    /\ payload.pc = "constructed"
    /\ \E m \in Methods :
          payload' = [payload EXCEPT !.method = m,
                                    !.payload = PayloadOf(payload.request,
                                                          payload.defaultModel),
                                    !.pc = "built"]
    /\ UNCHANGED <<call, pair, sr, two, decoder>>

\* fetchWithTimeout is called with body: JSON.stringify(payload)
SendPayload ==
    /\ payload.pc = "built"
    /\ payload' = [payload EXCEPT !.body = Stringify(payload.payload),
                                  !.pc = "sent"]
    /\ UNCHANGED <<call, pair, sr, two, decoder>>

PayloadNext ==
    \/ Construct
    \/ BuildPayload
    \/ SendPayload

PayloadSpec == PayloadInit /\ [][PayloadNext]_vars

-----------------------------------------------------------------------------
(* The decoder *)

\* The bytes of the encoded text, in hexadecimal: "a" is 61, U+00E9 is C3 A9,
\* U+20AC is E2 82 AC
Ascii == {"61"}
Lead2 == {"C3"}
Lead3 == {"E2"}
Continuations == {"A9", "82", "AC"}

\* A character is written as the bytes of its encoding; U+FFFD, which the
\* decoder puts for malformed input, as <<"FFFD">>
Replacement == <<"FFFD">>
Characters == {<<"61">>, <<"C3", "A9">>, <<"E2", "82", "AC">>}

RECURSIVE Texts(_)
Texts(n) ==
    IF n = 0 THEN {<<>>}
    ELSE LET shorter == Texts(n - 1)
         IN  shorter \cup {Append(s, c) : s \in {t \in shorter : Len(t) = n - 1},
                                          c \in Characters}

\* The encoder of the server: the bytes of the characters in order
RECURSIVE Encode(_)
Encode(text) == IF text = <<>> THEN <<>> ELSE Head(text) \o Encode(Tail(text))

\* new TextDecoder(): no bytes of an incomplete character are held
NewDecoder == [needed |-> 0, seen |-> <<>>, out |-> <<>>]

\* The UTF-8 decoder's handling of one byte: d.needed continuation bytes are
\* awaited for the character that began with d.seen
DecodeByte(d, b) ==
    IF d.needed = 0
    THEN IF b \in Ascii THEN [d EXCEPT !.out = Append(@, <<b>>)]
         ELSE IF b \in Lead2 THEN [d EXCEPT !.needed = 1, !.seen = <<b>>]
         ELSE IF b \in Lead3 THEN [d EXCEPT !.needed = 2, !.seen = <<b>>]
         ELSE [d EXCEPT !.out = Append(@, Replacement)]
    ELSE IF b \in Continuations
         THEN IF d.needed = 1
              THEN [d EXCEPT !.needed = 0, !.seen = <<>>,
                             !.out = Append(@, Append(d.seen, b))]
              ELSE [d EXCEPT !.needed = @ - 1, !.seen = Append(@, b)]
         ELSE LET restart == [d EXCEPT !.needed = 0, !.seen = <<>>,
                                       !.out = Append(@, Replacement)]
              IN  IF b \in Ascii THEN [restart EXCEPT !.out = Append(@, <<b>>)]
                  ELSE IF b \in Lead2
                       THEN [restart EXCEPT !.needed = 1, !.seen = <<b>>]
                       ELSE [restart EXCEPT !.needed = 2, !.seen = <<b>>]

RECURSIVE DecodeBytes(_, _)
DecodeBytes(d, bytes) ==
    IF bytes = <<>> THEN d
    ELSE DecodeBytes(DecodeByte(d, Head(bytes)), Tail(bytes))

\* decoder.decode(value): the end of the chunk is the end of the input, and an
\* incomplete character is replaced and forgotten
DecodeFlushing(d, value) ==
    LET e == DecodeBytes([d EXCEPT !.out = <<>>], value)
    IN  IF e.needed = 0 THEN e
        ELSE [e EXCEPT !.needed = 0, !.seen = <<>>, !.out = Append(@, Replacement)]

\* decoder.decode(value, { stream: true }): the characters completed by the
\* chunk in out, the bytes of an incomplete one kept for the next call
Decode(d, value) == DecodeBytes([d EXCEPT !.out = <<>>], value)

DecodeInit ==
    /\ NoCall
    /\ pair = NoPair
    /\ sr = NoSet
    /\ two = NoTwo
    /\ payload = NoPayload
    /\ \E text \in Texts(MaxChars) :
          decoder = [text |-> text, bytes |-> Encode(text), pos |-> 0,
                     state |-> NewDecoder, accumulatedText |-> <<>>,
                     cuts |-> 0, reads |-> 0, pc |-> "read"]

\* reader.read() gives the next bytes; the text holds no delimiter, so the
\* decoded chunk is appended to the accumulated text
DecodeChunk ==
    /\ decoder.pc = "read"
    /\ \E n \in (decoder.pos + 1)..Len(decoder.bytes) :
          LET d == Decode(decoder.state,
                          SubSeq(decoder.bytes, decoder.pos + 1, n))
          IN  decoder' =
                  [decoder EXCEPT !.state = d,
                                  !.pos = n,
                                  !.accumulatedText = FlushBuffer(@, d.out),
                                  !.cuts = IF d.needed # 0 THEN @ + 1 ELSE @,
                                  !.reads = @ + 1]
    /\ UNCHANGED <<call, pair, sr, two, payload>>

\* reader.read() gives done after the last byte
DecodeDone ==
    /\ decoder.pc = "read"
    /\ decoder.pos = Len(decoder.bytes)
    /\ decoder' = [decoder EXCEPT !.pc = "done"]
    /\ UNCHANGED <<call, pair, sr, two, payload>>

DecodeNext ==
    \/ DecodeChunk
    \/ DecodeDone

DecodeSpec == DecodeInit /\ [][DecodeNext]_vars

-----------------------------------------------------------------------------
(* Actions *)

Init ==
    /\ mode \in {"answer", "callback", "generator"}
    /\ message \in Messages
    /\ targets \in (IF mode = "generator" THEN {FALSE} ELSE BOOLEAN)
    /\ requests = 0
    /\ timer = "unset"
    /\ response = NoResponse
    /\ cause = "none"
    /\ error = NoError
    /\ dispatches = 0
    /\ registration = "none"
    /\ ended = FALSE
    /\ pc = "called"
    /\ received = <<>>
    /\ empties = 0
    /\ prevLen = 0
    /\ delimSplit = FALSE
    /\ buffer = <<>>
    /\ accumulatedText = <<>>
    /\ result = null
    /\ event = NoEvent
    /\ lastText = <<>>
    /\ nMeta = 0
    /\ metaText = <<>>
    /\ locked = FALSE
    /\ releases = 0
    /\ pair = NoPair
    /\ sr = NoSet
    /\ two = NoTwo
    /\ payload = NoPayload
    /\ decoder = NoDecoder

\* The call starts: the message is validated, then fetchWithTimeout arms the
\* abort timer and issues the request
Call ==
    /\ pc = "called"
    /\ IF MessageRejected(message)
       THEN /\ pc' = "rejected"
            /\ cause' = "message"
            /\ error' = PlainError("Message is required")
            /\ UNCHANGED <<requests, timer>>
       ELSE /\ pc' = "fetching"
            /\ requests' = requests + 1
            /\ timer' = "armed"
            /\ UNCHANGED <<cause, error>>
    /\ UNCHANGED <<aside, registration, mode, message, targets, response, dispatches, ended, received,
                   empties, prevLen, delimSplit, buffer, accumulatedText, result,
                   event, lastText, nMeta, metaText, locked, releases>>

\* fetch resolves: the timer is cleared; a non-success response goes to
\* handleApiError, which reads a JSON body before it throws; a success
\* response goes to response.json() in answer, to the body check in the others
FetchResponds ==
    /\ pc = "fetching"
    /\ \E r \in Responses :
          /\ response' = r
          /\ timer' = ClearTimeout(timer)
          /\ IF ~ResponseOk(r)
             THEN IF r.contentType = "application/json"
                  THEN pc' = "error_json" /\ UNCHANGED <<cause, error>>
                  ELSE /\ pc' = "rejected"
                       /\ cause' = "status"
                       /\ error' = HandleApiError(r, "unread")
             ELSE IF mode = "answer"
                  THEN pc' = "json" /\ UNCHANGED <<cause, error>>
                  ELSE IF r.body
                       THEN pc' = "start" /\ UNCHANGED <<cause, error>>
                       ELSE /\ pc' = "rejected"
                            /\ cause' = "body"
                            /\ error' = PlainError("Response body is null")
    /\ UNCHANGED <<aside, registration, mode, message, targets, requests, dispatches, ended, received,
                   empties, prevLen, delimSplit, buffer, accumulatedText, result,
                   event, lastText, nMeta, metaText, locked, releases>>

\* fetch rejects for a reason other than the abort
FetchFails ==
    /\ pc = "fetching"
    /\ timer' = ClearTimeout(timer)
    /\ pc' = "rejected"
    /\ cause' = "network"
    /\ error' = FetchError("TypeError")
    /\ UNCHANGED <<aside, registration, mode, message, targets, requests, response, dispatches, ended,
                   received, empties, prevLen, delimSplit, buffer, accumulatedText,
                   result, event, lastText, nMeta, metaText, locked, releases>>

\* The timer fires: controller.abort() makes the pending fetch reject with an
\* AbortError
TimerFires ==
    /\ timer = "armed"
    /\ pc = "fetching"
    /\ timer' = "fired"
    /\ pc' = "rejected"
    /\ cause' = "abort"
    /\ error' = FetchError("AbortError")
    /\ UNCHANGED <<aside, registration, mode, message, targets, requests, response, dispatches, ended,
                   received, empties, prevLen, delimSplit, buffer, accumulatedText,
                   result, event, lastText, nMeta, metaText, locked, releases>>

\* In handleApiError response.json() settles: with an object, or rejected
ErrorBodyArrives ==
    /\ pc = "error_json"
    /\ \E parsed \in ErrorBodies \cup {"unparsable"} :
          /\ response' = [response EXCEPT !.json = parsed]
          /\ error' = HandleApiError(response, parsed)
    /\ pc' = "rejected"
    /\ cause' = "status"
    /\ UNCHANGED <<aside, registration, mode, message, targets, requests, timer, dispatches,
                   ended, received, empties, prevLen, delimSplit, buffer,
                   accumulatedText, result, event, lastText, nMeta, metaText,
                   locked, releases>>

\* In answer response.json() gives the body: setResponse is called if it has
\* to be, and the body is returned
AnswerBodyArrives ==
    /\ pc = "json"
    /\ \E body \in AnswerBodies : Apply(AnswerReturn([Cur EXCEPT !.result = body]))
    /\ UNCHANGED <<aside, request, cause, error, ended, received, empties, prevLen,
                   delimSplit>>

\* In answer response.json() is rejected
AnswerBodyFails ==
    /\ pc = "json"
    /\ pc' = "rejected"
    /\ cause' = "json"
    /\ error' = [NoError EXCEPT !.name = "SyntaxError", !.message = "JSON"]
    /\ UNCHANGED <<aside, registration, mode, message, targets, requests, timer, response, dispatches,
                   ended, received, empties, prevLen, delimSplit, buffer,
                   accumulatedText, result, event, lastText, nMeta, metaText,
                   locked, releases>>

\* const reader = response.body.getReader(); the locals are initialised
GetReader ==
    /\ pc = "start"
    /\ Apply([Cur EXCEPT !.pc = "read", !.locked = TRUE])
    /\ UNCHANGED <<aside, request, cause, error, ended, received, empties, prevLen,
                   delimSplit>>

\* reader.read() gives a chunk: it is decoded, appended and classified
ReadChunk ==
    /\ pc = "read"
    /\ \E chunk \in Chunks(received) :
          LET first == IndexOf(received \o chunk, Delimiter)
          IN  /\ chunk = <<>> => empties < MaxEmpty
              /\ received' = received \o chunk
              /\ empties' = IF chunk = <<>> THEN empties + 1 ELSE empties
              /\ prevLen' = Len(received)
              /\ delimSplit' =
                    \/ delimSplit
                    \/ /\ first # -1
                       /\ first < Len(received)
                       /\ Len(received) < first + 3
                       /\ prevLen <= first
              /\ Apply(Classify([Cur EXCEPT !.buffer = @ \o chunk]))
    /\ UNCHANGED <<aside, request, cause, error, ended>>

\* reader.read() gives done: the loop ends
ReadDone ==
    /\ pc = "read"
    /\ Apply(AfterLoop(Cur))
    /\ ended' = TRUE
    /\ UNCHANGED <<aside, request, cause, error, received, empties, prevLen, delimSplit>>

\* reader.read() rejects: the error leaves through finally
ReadFails ==
    /\ pc = "read"
    /\ Apply(Finally(Cur, "read_failed"))
    /\ cause' = "read"
    /\ error' = TransportError
    /\ UNCHANGED <<aside, request, ended, received, empties, prevLen, delimSplit>>

\* onChunk returns, or the consumer asks the generator for the next value
Resume ==
    /\ pc \in TextPlaces \cup MetaPlaces
    /\ Apply(Continue(Cur))
    /\ UNCHANGED <<aside, request, cause, error, ended, received, empties, prevLen,
                   delimSplit>>

\* onChunk throws: the error leaves through finally
OnChunkThrows ==
    /\ mode = "callback"
    /\ pc \in TextPlaces
    /\ Apply(Finally(Cur, "threw"))
    /\ cause' = "consumer"
    /\ error' = ConsumerError
    /\ UNCHANGED <<aside, request, ended, received, empties, prevLen, delimSplit>>

\* The consumer closes the generator that is suspended at a yield
GeneratorReturn ==
    /\ mode = "generator"
    /\ pc \in TextPlaces \cup MetaPlaces
    /\ Apply(Return(Cur))
    /\ UNCHANGED <<aside, request, cause, error, ended, received, empties, prevLen,
                   delimSplit>>

\* The registration that setResponse sent settles: answered, failed or timed
\* out.  Nothing waits for it.
RegistrationSettles ==
    /\ registration = "pending"
    /\ registration' \in {"resolved", "rejected", "timed out"}
    /\ event' = NoEvent
    /\ UNCHANGED <<aside, request, cause, error, dispatches, ended, pc, received,
                   empties, prevLen, delimSplit, buffer, accumulatedText, result,
                   lastText, nMeta, metaText, locked, releases>>

Next ==
    \/ Call
    \/ FetchResponds
    \/ FetchFails
    \/ TimerFires
    \/ ErrorBodyArrives
    \/ AnswerBodyArrives
    \/ AnswerBodyFails
    \/ GetReader
    \/ ReadChunk
    \/ ReadDone
    \/ ReadFails
    \/ Resume
    \/ OnChunkThrows
    \/ GeneratorReturn
    \/ RegistrationSettles

Spec == Init /\ [][Next]_vars

\* The scheduling the call can rely on: its own steps run, an armed timer
\* fires, and the consumer hands control back.  The transport is under no
\* obligation: it may stop responding at any point.
FairSpec ==
    /\ Spec
    /\ WF_vars(Call)
    /\ WF_vars(GetReader)
    /\ WF_vars(TimerFires)
    /\ WF_vars(Resume)

TypeOK ==
    /\ mode \in {"answer", "callback", "generator"}
    /\ message \in Messages
    /\ targets \in BOOLEAN
    /\ requests \in 0..1
    /\ timer \in {"unset", "armed", "cleared", "fired"}
    /\ [response EXCEPT !.json = "unread"] \in Responses \cup {NoResponse}
    /\ response.json \in ErrorBodies \cup {"unread", "unparsable"}
    /\ cause \in {"none", "message", "abort", "network", "status", "body",
                   "json", "read", "consumer"}
    /\ dispatches \in 0..1
    /\ registration \in {"none", "pending", "resolved", "rejected", "timed out"}
    /\ ended \in BOOLEAN
    /\ pc \in {"called", "fetching", "error_json", "json", "start", "read"}
              \cup TextPlaces \cup MetaPlaces \cup Ended
    /\ received \in Streams
    /\ empties \in 0..MaxEmpty
    /\ prevLen \in 0..Len(received)
    /\ delimSplit \in BOOLEAN
    /\ nMeta \in Nat
    /\ locked \in BOOLEAN
    /\ releases \in Nat

-----------------------------------------------------------------------------
(* What a stream content is, for the properties *)

HasDelimiter(s) == IndexOf(s, Delimiter) # -1

\* The candidate after the first delimiter of s, from its brace on
Candidate(s) == SubstringFrom(s, IndexOf(s, Delimiter) + 2)

\* s is the text of one complete JSON object: over the characters of the
\* streams, a brace pair with only whitespace inside and after it
IsObjectText(s) ==
    \E k \in 2..Len(s) :
        /\ s[1] = "{"
        /\ s[k] = "}"
        /\ \A i \in 2..Len(s) : i # k => (s[i] = NL \/ (i < k /\ s[i] \in Members))

\* s is <answer text> + "\n\n" + <one JSON object>, the answer text being the
\* content before the first delimiter
ProtocolStream(s) == HasDelimiter(s) /\ IsObjectText(Candidate(s))

AnswerTextOf(s) == Substring(s, 0, IndexOf(s, Delimiter))

MetadataOf(s) == JSONValue(Candidate(s))

\* No content that follows a blank line of s was valid JSON at any time
NeverJSON(s) ==
    \A n \in 0..Len(s) : \A i \in 0..n :
        OccursAt(SubSeq(s, 1, n), BlankLine, i) => ~JSONValid(SubSeq(s, i + 3, n))

\* a is a subsequence of b: the characters of a occur in b in the same order
RECURSIVE IsSubsequence(_, _)
IsSubsequence(a, b) ==
    IF a = <<>> THEN TRUE
    ELSE IF b = <<>> THEN FALSE
    ELSE IF Head(a) = Head(b) THEN IsSubsequence(Tail(a), Tail(b))
    ELSE IsSubsequence(a, Tail(b))

\* The answer text the transport delivered: the content without the blank
\* line and the JSON that was delivered as metadata
DeliveredAnswerText ==
    IF nMeta = 0 THEN received
    ELSE Substring(received, 0, Len(received) - Len(metaText) - 2)

\* The number of places at which the delimiter occurs in s
Occurrences(s) == Cardinality({i \in 0..Len(s) : OccursAt(s, Delimiter, i)})

\* The chunk a step reads
ChunkOf(before, after) == SubSeq(after, Len(before) + 1, Len(after))

-----------------------------------------------------------------------------
(* Properties *)

\* C1: for a stream content <answer text> + "\n\n" + <one JSON object>, every
\* segmentation into chunks ends with the answer text as the accumulated text
\* and with the parsed object as the metadata.
C1_RechunkingInvariance ==
    (pc = "done" /\ ProtocolStream(received)) =>
        /\ accumulatedText = AnswerTextOf(received)
        /\ AnswerTextOf(received) # <<>> => lastText = <<AnswerTextOf(received)>>
        /\ result = MetadataOf(received)

\* C2: every text value delivered to the consumer is a prefix of the content
\* received so far.
C2_TextIsPrefixOfReceived ==
    event.kind = "text" => IsPrefix(event.value, received)

\* C3: a delimiter that is split across two consecutive reads is still the
\* boundary: the text before it is the answer text and the object after it is
\* the metadata.
C3_SplitDelimiterRecognised ==
    (pc = "done" /\ delimSplit /\ ProtocolStream(received)) =>
        /\ accumulatedText = AnswerTextOf(received)
        /\ nMeta = 1
        /\ result = MetadataOf(received)

\* C4: when the JSON after the delimiter is incomplete at the end of one read
\* and complete at the end of a later read, no metadata is produced while it is
\* incomplete and exactly one metadata result has been produced when the
\* completing read has been handled.
C4_IncompleteThenComplete ==
    LET first == IndexOf(received, Delimiter)
    IN  /\ (pc = "read" /\ HasDelimiter(received)
                /\ ~IsObjectText(Candidate(received))) =>
            (nMeta = 0 /\ result = null)
        /\ (pc \in {"read", "meta", "done"} /\ ProtocolStream(received)
                /\ first + 3 <= prevLen /\ prevLen < Len(received)
                /\ ~IsObjectText(SubSeq(received, first + 3, prevLen))) =>
            (nMeta = 1 /\ result = MetadataOf(received))

\* The part of C4 that the code keeps: a pass of the loop that finds the
\* delimiter in the buffer with an incomplete candidate produces nothing and
\* keeps the buffer, and the pass that finds the candidate complete produces
\* exactly one metadata result, after the text before the delimiter.
ParseRetriedOnGrownBuffer ==
    [][ LET isRead == pc = "read" /\ (received' # received \/ empties' # empties)
            isParse == pc = "text" /\ pc' \notin {"text", "threw", "closed"}
            newBuffer == IF isRead THEN buffer \o ChunkOf(received, received')
                         ELSE buffer
        IN  /\ ((isRead \/ isParse) /\ HasDelimiter(newBuffer)
                    /\ ~IsObjectText(Candidate(newBuffer))) =>
                /\ nMeta' = 0 /\ result' = null
                /\ pc' \in {"read", "text"} /\ buffer' = newBuffer
            /\ (isRead /\ buffer # <<>> /\ IsObjectText(Candidate(newBuffer))) =>
                \/ pc' = "text" /\ nMeta' = 0 /\ buffer' = newBuffer
                \/ /\ pc' \in {"meta", "done"} /\ nMeta' = 1
                   /\ result' = JSONValue(Candidate(newBuffer))
            /\ (isParse /\ IsObjectText(Candidate(buffer))) =>
                /\ pc' \in {"meta", "done"} /\ nMeta = 0 /\ nMeta' = 1
                /\ result' = JSONValue(Candidate(buffer))
      ]_vars

C6_NoTextDropped ==
    pc = "done" =>
        /\ IsSubsequence(DeliveredAnswerText, accumulatedText)
        /\ DeliveredAnswerText # <<>> =>
              /\ lastText = <<accumulatedText>>
              /\ IsSubsequence(DeliveredAnswerText, lastText[1])

\* C6 witness: the stream ended on a candidate that never parsed, and the
\* fallback gave it back as text.
C6_Witness ==
    /\ pc = "done"
    /\ nMeta = 0
    /\ HasDelimiter(received)
    /\ buffer # <<>>
    /\ lastText = <<accumulatedText>>

\* C7: the accumulated text only grows, and every text value delivered is the
\* whole accumulated text and extends the text value delivered before it.
C7_TextOnlyGrows ==
    [][ /\ IsPrefix(accumulatedText, accumulatedText')
        /\ event'.kind = "text" =>
              /\ event'.value = accumulatedText'
              /\ lastText' = <<event'.value>>
              /\ lastText # <<>> => IsPrefix(lastText[1], event'.value)
      ]_vars

\* C7 witness: a text value that extends an earlier, non-empty one.
C7_Witness ==
    /\ pc = "flush"
    /\ event.kind = "text"
    /\ buffer # <<>>
    /\ Len(accumulatedText) > Len(buffer)

\* C8: for a stream without the delimiter the last text value is the whole
\* content, no metadata is produced and the result is null.
C8_NoDelimiter ==
    (pc = "done" /\ ~HasDelimiter(received)) =>
        /\ result = null
        /\ nMeta = 0
        /\ accumulatedText = received
        /\ received # <<>> => lastText = <<received>>
        /\ lastText # <<>> => lastText = <<received>>

\* C8 witness: a stream with a blank line and a brace, but no delimiter, that
\* arrived in more than one chunk.
C8_Witness ==
    /\ pc = "done"
    /\ ~HasDelimiter(received)
    /\ IndexOf(received, BlankLine) # -1
    /\ IndexOf(received, <<"{">>) # -1
    /\ 0 < prevLen /\ prevLen < Len(received)

\* C9: for a stream whose content after a blank line never is valid JSON, the
\* text delivered in total is the whole content and no metadata is produced.
C9_MalformedTrailerIsText ==
    (pc = "done" /\ IndexOf(received, BlankLine) # -1 /\ NeverJSON(received)) =>
        /\ nMeta = 0
        /\ result = null
        /\ accumulatedText = received
        /\ lastText = <<received>>

\* C10: the reader is released exactly once on every exit path, and is held
\* until then.
C10_ReleasedExactlyOnce ==
    /\ releases <= 1
    /\ pc \in Settled => (releases = 1 /\ ~locked)
    /\ pc \in {"read"} \cup TextPlaces \cup MetaPlaces => (releases = 0 /\ locked)
    /\ pc \notin {"read"} \cup TextPlaces \cup MetaPlaces \cup Settled =>
          (releases = 0 /\ ~locked)

\* C10 witness: the call ended because onChunk threw on the text before a
\* delimiter, and the reader was released once.
C10_Witness ==
    /\ pc = "threw"
    /\ HasDelimiter(buffer)
    /\ lastText = <<AnswerTextOf(buffer)>>
    /\ releases = 1
    /\ ~locked

C12_ResolvesAfterClose ==
    [][ mode = "callback" =>
          /\ pc' = "done" =>
                /\ ended' \/ nMeta' >= 1
                /\ result' = IF nMeta' >= 1 THEN JSONValue(metaText') ELSE null
                /\ error' = NoError
          /\ pc \in TextPlaces =>
                (received' = received /\ empties' = empties /\ ended' = ended)
          /\ event'.kind = "text" => pc' \in TextPlaces
          /\ pc \in Ended => event'.kind = "none"
      ]_vars

\* C12 witness: answerStream resolved with the parsed metadata, before the
\* end of the body, after text had been delivered.
C12_Witness ==
    /\ mode = "callback"
    /\ pc = "done"
    /\ ~ended
    /\ nMeta = 1
    /\ result = JSONValue(metaText)
    /\ lastText # <<>>

\* C13: on the same chunks answerStream and answerStreamGenerator deliver the
\* same strings, answerStream returns a non-null value exactly when the
\* generator's last value is a metadata value, which then wraps that value,
\* and the generator ends after the read after which answerStream returns.
C13_DeliveriesEquivalent ==
    LET cb == pair.cb
        gen == pair.gen
        last == gen.events[Len(gen.events)]
        genMetadata == gen.events # <<>> /\ last.kind = "metadata"
    IN  /\ TextsOf(cb.events) = TextsOf(gen.events)
        /\ cb.s.pc = gen.s.pc
        /\ cb.s.pc \in {"read", "done"}
        /\ cb.s.pc = "done" =>
              /\ cb.s.result # null <=> genMetadata
              /\ genMetadata => last.value = cb.s.result
              /\ \A i \in 1..(Len(gen.events) - 1) : gen.events[i].kind = "text"

\* C13 witness: both calls have ended, after two strings and a metadata value.
C13_Witness ==
    /\ pair.cb.s.pc = "done"
    /\ pair.gen.s.pc = "done"
    /\ Len(TextsOf(pair.gen.events)) = 2
    /\ pair.cb.s.result # null
    /\ pair.gen.events[Len(pair.gen.events)].kind = "metadata"

\* C14: for an empty or blank message every method fails before the network
\* is used: no request is issued, no timer armed, no reader acquired, nothing
\* delivered, and the call ends rejected.
C14_BlankMessageRejected ==
    (message = <<>> \/ \A i \in 1..Len(message) : message[i] \in {Space, NL}) =>
        /\ pc \in {"called", "rejected"}
        /\ pc = "rejected" => (cause = "message" /\ error # NoError)
        /\ requests = 0
        /\ timer = "unset"
        /\ response = NoResponse
        /\ ~locked /\ releases = 0
        /\ event = NoEvent /\ lastText = <<>> /\ nMeta = 0
        /\ result = null
        /\ dispatches = 0

\* C14 witness: a call with a message of blanks has been rejected.
C14_Witness ==
    /\ message # <<>>
    /\ Trim(message) = <<>>
    /\ pc = "rejected"
    /\ cause = "message"
    /\ requests = 0

\* C15: a failure of the wait for the response that the abort of the timer
\* caused is a TimeoutError, never a NetworkError, and any other failure of
\* that wait is a NetworkError; neither error has another origin.
C15_FetchFailureClassified ==
    /\ cause = "abort" => (timer = "fired" /\ error.name = "TimeoutError")
    /\ timer = "fired" => (cause = "abort" /\ error.name = "TimeoutError")
    /\ cause = "network" => error.name = "NetworkError"
    /\ error.name = "NetworkError" => (cause = "network" /\ timer = "cleared")
    /\ cause \in {"abort", "network"} =>
          (pc = "rejected" /\ response = NoResponse /\ requests = 1)

\* C15 witness: the timer fired while the request was pending and the call
\* failed with a TimeoutError.
C15_Witness ==
    /\ pc = "rejected"
    /\ timer = "fired"
    /\ cause = "abort"
    /\ error = TimeoutError("timed out")
    /\ requests = 1

\* C16: every call eventually settles, whatever the transport does: when it
\* stops responding, the timeout ends the call.
C16_EventuallySettles == <>(pc \in Ended)

\* C17: the error thrown for a non-success response is chosen by the status:
\* 400 ValidationError, 401 AuthenticationError, 500 ServerError, any other
\* status the base ThredError; its statusCode is the status of the response,
\* and its response field is the parsed error body when there was one.
C17_ErrorChosenByStatus ==
    cause = "status" =>
        /\ response.status \notin 200..299
        /\ error.name =
              IF response.status = 400 THEN "ValidationError"
              ELSE IF response.status = 401 THEN "AuthenticationError"
              ELSE IF response.status = 500 THEN "ServerError"
              ELSE "ThredError"
        /\ error.statusCode = response.status
        /\ error.response =
              IF response.json \in ErrorBodies THEN response.json ELSE "undefined"
        /\ response.json # "unread" <=> response.contentType = "application/json"
        /\ error.response \in {"message", "both"} =>
              error.message = "errorData.message"
        /\ error.response = "error" => error.message = "errorData.error"

\* C17 witness: a 500 response with a JSON body that holds a message gave a
\* ServerError that carries the body.
C17_Witness ==
    /\ pc = "rejected"
    /\ cause = "status"
    /\ response.status = 500
    /\ error.name = "ServerError"
    /\ error.statusCode = 500
    /\ response.json = "message"
    /\ error.response = "message"

\* C18: with a non-success status the call always fails with the error chosen
\* for the response: nothing is returned, no reader is acquired, no value is
\* delivered and setResponse is not called.
C18_NonSuccessAlwaysFails ==
    (response # NoResponse /\ ~(200 <= response.status /\ response.status <= 299)) =>
        /\ pc \in {"error_json", "rejected"}
        /\ pc = "rejected" =>
              /\ cause = "status"
              /\ error.statusCode = response.status
              /\ error.name \in {"ValidationError", "AuthenticationError",
                                 "ServerError", "ThredError"}
        /\ result = null
        /\ ~locked /\ releases = 0
        /\ received = <<>> /\ ~ended
        /\ event = NoEvent /\ lastText = <<>> /\ nMeta = 0
        /\ dispatches = 0

\* C18 witness: an answer call with targets got a 404 and failed.
C18_Witness ==
    /\ mode = "answer"
    /\ targets
    /\ response.status = 404
    /\ pc = "rejected"
    /\ error.name = "ThredError"
    /\ error.statusCode = 404
    /\ dispatches = 0

\* C19: every failure of a call that is not the consumer's own error is an
\* instance of ThredError; an empty or blank message gives a ValidationError
\* and a failed read of the body a NetworkError.
C19_FailuresAreThredErrors ==
    cause \notin {"none", "consumer"} =>
        /\ InstanceOfThredError(error)
        /\ cause = "message" => error.name = "ValidationError"
        /\ cause = "read" => error.name = "NetworkError"

\* C20: when the body of a non-success response does not parse as JSON, the
\* error thrown is still the one chosen by the status, its message is the
\* status text, it carries no body, and the parse failure is not what the
\* caller gets.
C20_UnparsableErrorBody ==
    (pc = "rejected" /\ response.contentType = "application/json"
        /\ response.json = "unparsable") =>
        /\ cause = "status"
        /\ error.name =
              CASE response.status = 400 -> "ValidationError"
                [] response.status = 401 -> "AuthenticationError"
                [] response.status = 500 -> "ServerError"
                [] OTHER                 -> "ThredError"
        /\ error.statusCode = response.status
        /\ error.message = "response.statusText"
        /\ error.response = "undefined"

\* C20 witness: a 401 whose JSON body did not parse gave an
\* AuthenticationError with the status text.
C20_Witness ==
    /\ pc = "rejected"
    /\ response.status = 401
    /\ response.contentType = "application/json"
    /\ response.json = "unparsable"
    /\ error = AuthenticationError("response.statusText", "undefined")

C22_RegistrationNotAwaited ==
    [][ /\ (registration = "none" /\ registration' # "none") =>
              /\ registration' = "pending"
              /\ dispatches' = dispatches + 1
              /\ mode \in {"answer", "callback"}
        /\ registration' # "none" =>
              /\ pc' = (IF mode = "answer" THEN "returned" ELSE "done")
              /\ error' = NoError
              /\ cause' = "none"
              /\ HasField(result', "response") /\ HasField(result', "code")
        /\ registration # "none" =>
              (pc' = pc /\ result' = result /\ error' = error /\ cause' = cause)
      ]_vars

\* C22 witness: answerStream has returned its metadata and the registration
\* it started has failed afterwards.
C22_Witness ==
    /\ mode = "callback"
    /\ pc = "done"
    /\ registration = "rejected"
    /\ result = <<"{", "response", "code", "}">>
    /\ error = NoError

\* C23: when the delimiter occurs more than once in the received content, the
\* boundary is its first occurrence: a metadata result is parsed from the
\* candidate that starts at the brace of the first occurrence, and the text
\* before that occurrence is delivered as text.
C23_FirstDelimiterWins ==
    (Occurrences(received) >= 2 /\ pc \in MetaPlaces \cup {"done"}) =>
        /\ nMeta >= 1 => metaText = Candidate(received)
        /\ IsPrefix(AnswerTextOf(received), accumulatedText)
        /\ (pc = "done" /\ nMeta = 0) => accumulatedText = received

\* C24: content that follows a blank line without beginning with "{" is never
\* delivered as metadata: a metadata result is parsed only from a candidate that
\* starts at the brace of an occurrence of the delimiter in what was received.
C24_MetadataOnlyAfterDelimiter ==
    nMeta >= 1 =>
        \E i \in 0..Len(received) :
            /\ OccursAt(received, Delimiter, i)
            /\ metaText = SubstringFrom(received, i + 2)

\* C25: a read after which the delimiter stands at the start of the pending
\* buffer produces no text event, and the parse of the candidate is attempted
\* on that read: a valid candidate gives the metadata at once, an invalid one
\* leaves the buffer for the next read.
C25_NoTextBeforeDelimiter ==
    [][ LET isRead == pc = "read" /\ (received' # received \/ empties' # empties)
            newBuffer == buffer \o ChunkOf(received, received')
        IN  (isRead /\ IndexOf(newBuffer, Delimiter) = 0) =>
                /\ event'.kind # "text"
                /\ lastText' = lastText
                /\ accumulatedText' = accumulatedText
                /\ IF JSONValid(Candidate(newBuffer))
                   THEN /\ nMeta' = nMeta + 1
                        /\ metaText' = Candidate(newBuffer)
                        /\ result' = JSONValue(Candidate(newBuffer))
                        /\ pc' \in {"meta", "done"}
                   ELSE /\ nMeta' = nMeta
                        /\ result' = result
                        /\ buffer' = newBuffer
                        /\ pc' = "read"
      ]_vars

\* C25 witness: the metadata came from a delimiter at the start of the stream,
\* on the second read or later, and no text was ever delivered.
C25_Witness ==
    /\ pc \in {"meta", "done"}
    /\ nMeta = 1
    /\ IndexOf(received, Delimiter) = 0
    /\ metaText = Candidate(received)
    /\ prevLen >= 3
    /\ lastText = <<>>

\* C26: two calls on one client whose reads and callbacks interleave do not
\* affect each other: each call delivers the values and ends with the result
\* of a call that gets its chunks alone, and no two callbacks run at once.
C26_CallsIndependent ==
    /\ \A i \in 1..2 :
          LET c == two.calls[i]
          IN  Drain(c.s, c.events) =
                  RunAlone([s |-> TwoStart(c.s.mode), events |-> <<>>],
                           c.chunks, c.ended)
    /\ ~(CallbackRunning(two, 1) /\ CallbackRunning(two, 2))

\* C26 witness: the first call waits for a read with a delimiter pending in
\* its buffer while the callback of the second runs on its second chunk.
C26_Witness ==
    /\ two.calls[1].s.mode = "callback"
    /\ two.calls[1].s.pc = "read"
    /\ HasDelimiter(two.calls[1].s.buffer)
    /\ two.calls[1].events # <<>>
    /\ CallbackRunning(two, 2)
    /\ Len(two.calls[2].chunks) = 2
    /\ two.calls[2].s.accumulatedText # <<>>

\* C27: the body sent by each of the three methods carries the model of the
\* request when one is given, otherwise the default model the client was
\* configured with, otherwise "gpt-4", and every other field the caller
\* supplied with the value the caller gave it, and no other field.
C27_PayloadModelAndFields ==
    payload.pc = "sent" =>
        LET req == payload.request
            body == payload.body
        IN  /\ "model" \in DOMAIN body
            /\ body.model =
                  IF req.model \in Models THEN req.model
                  ELSE IF payload.config.defaultModel \in Models
                       THEN payload.config.defaultModel
                       ELSE "gpt-4"
            /\ \A f \in DOMAIN req \ {"model"} :
                  IF req[f] = "undefined" THEN f \notin DOMAIN body
                  ELSE f \in DOMAIN body /\ body[f] = req[f]
            /\ DOMAIN body \subseteq DOMAIN req

\* C27 witness: answerStream sent "gpt-4" for a request and a configuration
\* without model, and a maxTokens of 0 as it was given.
C27_Witness ==
    /\ payload.pc = "sent"
    /\ payload.method = "answerStream"
    /\ payload.request.model = "undefined"
    /\ payload.config.defaultModel = "undefined"
    /\ payload.body.model = "gpt-4"
    /\ payload.body.maxTokens = "0"
    /\ "temperature" \notin DOMAIN payload.body

\* C28: a character of several bytes that is split between consecutive chunks
\* is decoded to that character once its chunks are consumed: after every read
\* the accumulated text is the characters whose bytes have all arrived, as a
\* single chunk of those bytes decodes, without a replacement character, and
\* the bytes of the incomplete character are held for the next read.
C28_SplitCharacterDecoded ==
    LET whole == DecodeFlushing(NewDecoder, decoder.bytes).out
        held == decoder.state.seen
    IN  /\ whole = decoder.text
        /\ IsPrefix(decoder.accumulatedText, decoder.text)
        /\ \A i \in 1..Len(decoder.accumulatedText) :
              decoder.accumulatedText[i] # Replacement
        /\ Encode(decoder.accumulatedText) \o held =
              SubSeq(decoder.bytes, 1, decoder.pos)
        /\ decoder.pos = Len(decoder.bytes) => decoder.accumulatedText = whole

\* C28 witness: the stream has ended, two reads ended inside a character, one
\* of them inside U+20AC, and every read but the last did.
C28_Witness ==
    /\ decoder.pc = "done"
    /\ decoder.cuts = 2
    /\ decoder.reads = 3
    /\ \E i \in 1..Len(decoder.text) : decoder.text[i] = <<"E2", "82", "AC">>
    /\ decoder.accumulatedText = decoder.text

\* C29: when the delimiter is found and the candidate after it is not valid
\* JSON, no metadata is emitted, the buffer is kept as it is and the call reads
\* on; every later read appends to that candidate and the parse is attempted
\* on the grown candidate, after the text before the delimiter if there is
\* one, until it succeeds.
C29_FailedParseRetried ==
    [][ LET isRead == pc = "read" /\ (received' # received \/ empties' # empties)
            isParse == pc = "text" /\ pc' \notin {"text", "threw", "closed"}
            newBuffer == IF isRead THEN buffer \o ChunkOf(received, received')
                         ELSE buffer
            attempted == (isRead /\ IndexOf(newBuffer, Delimiter) = 0) \/ isParse
        IN  /\ (isRead /\ IndexOf(newBuffer, Delimiter) > 0) =>
                  (pc' = "text" /\ buffer' = newBuffer /\ nMeta' = nMeta)
            /\ (attempted /\ ~JSONValid(Candidate(newBuffer))) =>
                  /\ nMeta' = nMeta /\ result' = result
                  /\ event'.kind # "metadata"
                  /\ buffer' = newBuffer
                  /\ pc' = "read"
            /\ (attempted /\ JSONValid(Candidate(newBuffer))) =>
                  /\ nMeta' = nMeta + 1
                  /\ metaText' = Candidate(newBuffer)
                  /\ pc' \in {"meta", "done"}
            /\ (isRead /\ HasDelimiter(buffer)) =>
                  /\ IndexOf(newBuffer, Delimiter) = IndexOf(buffer, Delimiter)
                  /\ Candidate(newBuffer) =
                         Candidate(buffer) \o ChunkOf(received, received')
      ]_vars

\* C29 witness: the delimiter had arrived whole before the last read, so the
\* parse had failed, and the parse of the grown candidate gave the metadata.
C29_Witness ==
    /\ pc \in {"meta", "done"}
    /\ nMeta = 1
    /\ ~delimSplit
    /\ prevLen >= IndexOf(received, Delimiter) + 4
    /\ metaText = Candidate(received)
    /\ Len(metaText) >= 3

\* C30: a read after which the buffer holds no delimiter appends the whole
\* buffer to the accumulated text and delivers exactly one text value, the
\* full accumulated text, also when the chunk is empty; when the consumer
\* hands control back the buffer is emptied and the call reads on, without
\* another delivery.
C30_FlushWithoutDelimiter ==
    [][ LET isRead == pc = "read" /\ (received' # received \/ empties' # empties)
            newBuffer == buffer \o ChunkOf(received, received')
            isBack == pc = "flush" /\ pc' \notin {"flush", "threw", "closed"}
        IN  /\ (isRead /\ ~HasDelimiter(newBuffer)) =>
                  /\ accumulatedText' = accumulatedText \o newBuffer
                  /\ event' = [kind |-> "text", value |-> accumulatedText']
                  /\ lastText' = <<accumulatedText'>>
                  /\ pc' = "flush"
                  /\ nMeta' = nMeta
            /\ isBack =>
                  /\ buffer' = <<>>
                  /\ pc' = "read"
                  /\ accumulatedText' = accumulatedText
                  /\ lastText' = lastText
                  /\ nMeta' = nMeta
      ]_vars

\* C30 witness: the last read gave an empty chunk after some text, and the
\* text received is being delivered once more.
C30_Witness ==
    /\ pc = "flush"
    /\ empties = 1
    /\ received # <<>>
    /\ prevLen = Len(received)
    /\ buffer = <<>>
    /\ event = [kind |-> "text", value |-> received]

\* C31: when the stream ends with a non-empty buffer, the fallback splits it
\* at blank lines. The first segment is appended to the text and delivered
\* only if it is non-empty; the other segments, joined by blank lines, are the
\* candidate: if it parses it becomes the metadata result and the last value
\* delivered, and if it does not it is appended to the text behind a blank
\* line and delivered as one more text value, the last one.
C31_FallbackSplit ==
    [][ LET isDone == pc = "read" /\ ~ended /\ ended'
            lines == Split(buffer, BlankLine)
            textPart == lines[1]
            metadataPart == Join(Tail(lines), BlankLine)
            isParse == \/ isDone /\ buffer # <<>> /\ textPart = <<>>
                       \/ pc = "fb_text" /\ pc' \notin {"fb_text", "threw", "closed"}
        IN  /\ (isDone /\ buffer = <<>>) =>
                  (pc' = "done" /\ lastText' = lastText /\ nMeta' = nMeta)
            /\ (isDone /\ buffer # <<>>) => Len(lines) > 1
            /\ (isDone /\ buffer # <<>> /\ textPart # <<>>) =>
                  /\ accumulatedText' = accumulatedText \o textPart
                  /\ event' = [kind |-> "text", value |-> accumulatedText']
                  /\ pc' = "fb_text"
                  /\ nMeta' = nMeta
            /\ (isParse /\ JSONValid(metadataPart)) =>
                  /\ nMeta' = nMeta + 1
                  /\ metaText' = metadataPart
                  /\ result' = JSONValue(metadataPart)
                  /\ event' = [kind |-> "metadata", value |-> result']
                  /\ accumulatedText' = accumulatedText
                  /\ pc' \in {"fb_meta", "done"}
            /\ (isParse /\ ~JSONValid(metadataPart)) =>
                  /\ accumulatedText' = accumulatedText \o BlankLine \o metadataPart
                  /\ event' = [kind |-> "text", value |-> accumulatedText']
                  /\ nMeta' = nMeta /\ result' = result
                  /\ pc' = "fb_rest"
            /\ (pc \in {"fb_meta", "fb_rest"} /\ pc' # pc) =>
                  /\ pc' \in {"done", "threw", "closed"}
                  /\ lastText' = lastText /\ nMeta' = nMeta
                  /\ accumulatedText' = accumulatedText
      ]_vars

\* C31 witness: the stream ended with text and an unparsable candidate in the
\* buffer; the text was delivered, and now the remainder behind a blank line.
C31_Witness ==
    /\ pc = "fb_rest"
    /\ ended
    /\ Split(buffer, BlankLine)[1] # <<>>
    /\ nMeta = 0
    /\ event = [kind |-> "text", value |-> accumulatedText]
    /\ IsPrefix(BlankLine \o <<"{">>,
                SubstringFrom(accumulatedText, Len(accumulatedText) - Len(buffer)
                                               + Len(Split(buffer, BlankLine)[1])))

\* C32: setResponse is started at most once per call, only by answer and
\* answerStream, only with the terminal result in hand (in answer the parsed
\* body, as the call returns; in answerStream after the reading has ended and
\* the reader was released), and only if targets were given and the result
\* has a code; a call without targets never starts it and registers nothing.
C32_DispatchOnceAtEnd ==
    [][ /\ dispatches' >= dispatches
        /\ dispatches' <= 1
        /\ dispatches' # dispatches =>
              /\ pc # pc'
              /\ pc' = (IF mode = "answer" THEN "returned" ELSE "done")
        /\ dispatches' = 1 =>
              /\ targets'
              /\ HasField(result', "code")
              /\ error' = NoError
              /\ \/ mode' = "answer" /\ pc' = "returned" /\ response'.status = 200
                 \/ /\ mode' = "callback" /\ pc' = "done"
                    /\ ~locked' /\ releases' = 1 /\ nMeta' = 1
        /\ dispatches = 1 => (pc' = pc /\ result' = result /\ dispatches' = 1)
        /\ registration' # "none" => dispatches' = 1
        /\ ~targets' => (dispatches' = 0 /\ registration' = "none")
      ]_vars

\* C32 witness: answerStream has returned, with targets, after text and a
\* metadata result with a code; setResponse was started once and its
\* registration is under way.
C32_Witness ==
    /\ mode = "callback"
    /\ targets
    /\ pc = "done"
    /\ dispatches = 1
    /\ registration = "pending"
    /\ releases = 1
    /\ lastText # <<>>

\* C33: fetchWithTimeout cancels its timer on every exit: the timer is armed
\* exactly while the fetch is pending, it fires only then, ending the call with
\* a timeout, and is cleared when a response or another failure arrives, so it
\* is never armed while a body is read or parsed or after the call has ended.
C33_TimerOnlyWhileFetching ==
    /\ timer = "armed" <=> pc = "fetching"
    /\ timer = "unset" <=> requests = 0
    /\ requests <= 1
    /\ timer = "fired" =>
          (pc = "rejected" /\ cause = "abort" /\ error.name = "TimeoutError"
           /\ response = NoResponse)
    /\ (response # NoResponse \/ cause = "network") => timer = "cleared"
    /\ pc \in {"json", "error_json", "start", "read"} \cup TextPlaces \cup MetaPlaces
              \cup Settled \cup Returned => timer = "cleared"

\* C33 witness: a body read has failed after some content was read, and the
\* timer had been cleared when the response arrived.
C33_Witness ==
    /\ pc = "read_failed"
    /\ received # <<>>
    /\ timer = "cleared"
    /\ requests = 1

\* C34: after every pass of the read loop the buffer is empty or holds the
\* delimiter, and it is non-empty only after a parse that failed; so the
\* fallback, whenever it runs on a buffer, finds more than one blank-line
\* segment, and its branch for a single segment is never taken.
C34_BufferEmptyOrDelimited ==
    /\ pc = "read" =>
          \/ buffer = <<>>
          \/ HasDelimiter(buffer) /\ ~JSONValid(Candidate(buffer))
    /\ pc \in {"fb_text", "fb_rest", "fb_meta"} =>
          (HasDelimiter(buffer) /\ Len(Split(buffer, BlankLine)) > 1)
    /\ (ended /\ pc = "done" /\ buffer # <<>>) => Len(Split(buffer, BlankLine)) > 1
    /\ pc # "fb_all"

\* C34 witness: the stream ended with a buffer of three blank-line segments,
\* and the fallback has delivered the first.
C34_Witness ==
    /\ pc = "fb_text"
    /\ ended
    /\ Len(Split(buffer, BlankLine)) = 3
    /\ Split(buffer, BlankLine)[1] # <<>>

\* C35: when the consumer closes the generator that is suspended at a yield,
\* the reader is released exactly once and no chunk is read any more; while
\* the generator is suspended the reader is held and nothing is read.
C35_ClosedAtYield ==
    [][ LET suspended == mode = "generator" /\ pc \in TextPlaces \cup MetaPlaces
        IN  /\ suspended =>
                  /\ locked /\ releases = 0
                  /\ received' = received /\ empties' = empties /\ ended' = ended
            /\ (suspended /\ pc' = "closed") =>
                  /\ ~locked' /\ releases' = 1
                  /\ error' = NoError /\ dispatches' = 0
                  /\ nMeta' = nMeta /\ lastText' = lastText
                  /\ accumulatedText' = accumulatedText
            /\ pc = "closed" =>
                  /\ mode = "generator" /\ ~locked /\ releases = 1
                  /\ pc' = "closed" /\ releases' = 1 /\ ~locked'
                  /\ received' = received /\ empties' = empties /\ ended' = ended
                  /\ lastText' = lastText /\ nMeta' = nMeta
      ]_vars

\* C35 witness: the generator was closed at the yield of a text value while a
\* delimiter with an incomplete candidate was pending in its buffer.
C35_Witness ==
    /\ mode = "generator"
    /\ pc = "closed"
    /\ releases = 1
    /\ ~ended
    /\ nMeta = 0
    /\ lastText # <<>>
    /\ HasDelimiter(buffer)

====
